---- MODULE Spec2Model ----
(***************************************************************************)
(* Model of app/core/engine.py (LogicParser, ScanEngine) and of the call   *)
(* of ScanEngine.run_scan made by app/api/scans.py.                        *)
(*                                                                         *)
(* Tokens and expression strings are TLA+ strings; the Python str methods  *)
(* the parser uses (split, replace, isdigit, endswith, strip, in) are      *)
(* computed character by character.  A polars expression (pl.Expr) is the  *)
(* tree the code builds; a polars column is the sequence of its row        *)
(* values.                                                                 *)
(***************************************************************************)
EXTENDS Integers, Sequences, FiniteSets, TLC

(***************************************************************************)
(* Sequence helpers                                                        *)
(***************************************************************************)
Last(s) == s[Len(s)]
Front(s) == SubSeq(s, 1, Len(s) - 1)
MinOf(S) == CHOOSE m \in S : \A k \in S : m <= k
MaxOf(S) == CHOOSE m \in S : \A k \in S : m >= k
Abs(n) == IF n < 0 THEN -n ELSE n
\* Body applied to the value, computed once
Let(value, Body(_)) == CHOOSE y \in {Body(v) : v \in {value}} : TRUE

(***************************************************************************)
(* Python str methods                                                      *)
(***************************************************************************)
Char(s, i) == SubSeq(s, i, i)

Digits == {"0", "1", "2", "3", "4", "5", "6", "7", "8", "9"}

\* str.isdigit() on ASCII text
isdigit(s) == Len(s) > 0 /\ \A i \in 1..Len(s) : Char(s, i) \in Digits

\* str.find(sub) + 1 (0 when sub does not occur)
find(s, sub) ==
    Let({i \in 1..(Len(s) - Len(sub) + 1) : SubSeq(s, i, i + Len(sub) - 1) = sub},
        LAMBDA hits : IF hits = {} THEN 0 ELSE MinOf(hits))

\* sub in s
contains(s, sub) == find(s, sub) > 0

\* s.replace(old, '', 1)
replace_first(s, old) ==
    Let(find(s, old),
        LAMBDA i : IF i = 0 THEN s
                   ELSE SubSeq(s, 1, i - 1) \o SubSeq(s, i + Len(old), Len(s)))

\* s.endswith(suffix)
endswith(s, suffix) ==
    Len(s) >= Len(suffix) /\ SubSeq(s, Len(s) - Len(suffix) + 1, Len(s)) = suffix

\* s.split(sep, 1)
split_once(s, sep) ==
    Let(find(s, sep),
        LAMBDA i : IF i = 0 THEN <<s>>
                   ELSE <<SubSeq(s, 1, i - 1), SubSeq(s, i + Len(sep), Len(s))>>)

\* s.split(sep)
RECURSIVE split_sep(_, _)
split_sep(s, sep) ==
    Let(find(s, sep),
        LAMBDA i : IF i = 0 THEN <<s>>
                   ELSE <<SubSeq(s, 1, i - 1)>>
                        \o split_sep(SubSeq(s, i + Len(sep), Len(s)), sep))

\* s.strip(chars): chars is the set of characters removed from both ends
strip(s, chars) ==
    Let({i \in 1..Len(s) : Char(s, i) \notin chars},
        LAMBDA keep : IF keep = {} THEN "" ELSE SubSeq(s, MinOf(keep), MaxOf(keep)))

\* s.split(): split on runs of blanks, no empty strings
RECURSIVE split_ws(_)
split_ws(s) ==
    IF s = "" THEN <<>>
    ELSE IF Char(s, 1) = " " THEN split_ws(Tail(s))
    ELSE Let(find(s, " "),
             LAMBDA sp : IF sp = 0 THEN <<s>>
                         ELSE <<SubSeq(s, 1, sp - 1)>>
                              \o split_ws(SubSeq(s, sp + 1, Len(s))))

(***************************************************************************)
(* Numbers: a Python float is modelled as a rational n/d in lowest terms   *)
(* (d > 0); the inputs of the model are short decimal numerals.            *)
(***************************************************************************)
RECURSIVE GCD(_, _)
GCD(a, b) == IF b = 0 THEN a ELSE GCD(b, a % b)

Rat(n, d) ==
    Let(GCD(Abs(n), Abs(d)),
        LAMBDA g : IF d < 0 THEN [n |-> (0 - n) \div g, d |-> (0 - d) \div g]
                   ELSE [n |-> n \div g, d |-> d \div g])

DigitVal(c) ==
    CASE c = "0" -> 0 [] c = "1" -> 1 [] c = "2" -> 2 [] c = "3" -> 3 [] c = "4" -> 4
      [] c = "5" -> 5 [] c = "6" -> 6 [] c = "7" -> 7 [] c = "8" -> 8 [] c = "9" -> 9

RECURSIVE DigitsVal(_)
DigitsVal(s) ==
    IF s = "" THEN 0 ELSE 10 * DigitsVal(Front(s)) + DigitVal(Char(s, Len(s)))

RECURSIVE Pow10(_)
Pow10(k) == IF k = 0 THEN 1 ELSE 10 * Pow10(k - 1)

Unsigned(s) == IF s # "" /\ Char(s, 1) \in {"+", "-"} THEN Tail(s) ELSE s
Sign(s) == IF s # "" /\ Char(s, 1) = "-" THEN -1 ELSE 1

\* int(s) succeeds: an optional sign and decimal digits
IsIntLiteral(s) == isdigit(Unsigned(s))
IntValue(s) == Sign(s) * DigitsVal(Unsigned(s))

\* float(s) succeeds: an optional sign, decimal digits, at most one point
IsFloatLiteral(s) == isdigit(replace_first(Unsigned(s), "."))
FloatValue(s) ==
    Let(split_once(Unsigned(s), "."),
        LAMBDA parts :
            IF Len(parts) = 1 THEN Rat(Sign(s) * DigitsVal(parts[1]), 1)
            ELSE Rat(Sign(s) * DigitsVal(parts[1] \o parts[2]), Pow10(Len(parts[2]))))

(***************************************************************************)
(* Outcome of a call: a returned value, or the exception it raised.  Every *)
(* error of engine.py is a ValueError; msg names which one.                *)
(***************************************************************************)
Ok(v) == [ok |-> TRUE, exc |-> "", msg |-> "", val |-> v]
Raise(exc, msg) == [ok |-> FALSE, exc |-> exc, msg |-> msg, val |-> <<>>]

MismatchedParentheses == Raise("ValueError", "MismatchedParentheses")
UnknownVariableForShift == Raise("ValueError", "UnknownVariableForShift")
ArgumentConversionError == Raise("ValueError", "ArgumentConversionError")
UnknownIndicatorFunction == Raise("ValueError", "UnknownIndicatorFunction")
UnknownTokenOrVariable == Raise("ValueError", "UnknownTokenOrVariable")
InvalidExpression == Raise("ValueError", "InvalidExpression")
\* raised by Python itself, not by a raise statement of engine.py
IntConversionError == Raise("ValueError", "invalid literal for int()")
UnpackError == Raise("ValueError", "not enough values to unpack")
PopFromEmptyList == Raise("IndexError", "pop from empty list")
PolarsError == Raise("PolarsError", "invalid operation on the column types")

(***************************************************************************)
(* Polars expressions: the deferred computations the code builds           *)
(***************************************************************************)
Lit(v) == [k |-> "lit", v |-> v]
Col(name) == [k |-> "col", name |-> name]
Bin(op, l, r) == [k |-> "bin", op |-> op, l |-> l, r |-> r]
RollingMean(name, w) == [k |-> "rolling_mean", name |-> name, w |-> w]
\* an operator string waiting in the RPN queue
OpItem(sym) == [k |-> "op", sym |-> sym]

OperatorTokens == {"+", "-", "*", "/", ">", ">=", "<", "<=", "==", "!=", "AND", "OR"}

OPERATORS ==
    [t \in OperatorTokens |->
        [func |-> t,
         prec |-> CASE t \in {"+", "-"} -> 1
                    [] t \in {"*", "/"} -> 2
                    [] t \in {">", ">=", "<", "<=", "==", "!="} -> 0
                    [] t \in {"AND", "OR"} -> 0 - 1]]

\* the indicator registry of scans.py: name -> number of parameters
mock_indicators == [f \in {"ma"} |-> 1]

\* moving_average(period): pl.col('close').rolling_mean(window_size=period);
\* a call with another number of arguments is a TypeError
InvokeIndicator(func_name, converted_args) ==
    IF Len(converted_args) # 1 THEN Raise("TypeError", "wrong number of arguments")
    ELSE Ok(RollingMean("close", converted_args[1]))

\* self.variables[var_name].shift(shift_period)
LagReference_NoShift(var_expr, shift_period) == var_expr

LagReference(var_expr, shift_period) ==
    [k |-> "shift", e |-> var_expr, n |-> shift_period]

(***************************************************************************)
(* LogicParser._parse_tokens                                               *)
(***************************************************************************)
ParseTokens(expression) == split_ws(expression)

(***************************************************************************)
(* LogicParser._shunting_yard                                              *)
(***************************************************************************)
\* the loop condition of the operator branch
ShouldPop_Strict(operator_stack, token) ==
    /\ operator_stack # <<>>
    /\ Last(operator_stack) # "("
    /\ OPERATORS[Last(operator_stack)].prec > OPERATORS[token].prec

ShouldPop(operator_stack, token) ==
    /\ operator_stack # <<>>
    /\ Last(operator_stack) # "("
    /\ OPERATORS[Last(operator_stack)].prec >= OPERATORS[token].prec

\* the operator branch: pop while ShouldPop, then push the token
RECURSIVE PushOperator(_, _, _)
PushOperator(output_queue, operator_stack, token) ==
    IF ShouldPop(operator_stack, token)
    THEN PushOperator(Append(output_queue, OpItem(Last(operator_stack))),
                      Front(operator_stack), token)
    ELSE Ok([out |-> output_queue, stack |-> Append(operator_stack, token)])

\* the ')' branch: pop to the nearest '(' and drop it
RECURSIVE CloseParen(_, _)
CloseParen(output_queue, operator_stack) ==
    IF operator_stack # <<>> /\ Last(operator_stack) # "("
    THEN CloseParen(Append(output_queue, OpItem(Last(operator_stack))),
                    Front(operator_stack))
    ELSE IF operator_stack # <<>> /\ Last(operator_stack) = "("
    THEN Ok([out |-> output_queue, stack |-> Front(operator_stack)])
    ELSE MismatchedParentheses

\* the 'name.shift(n)' form, var_name and func_call being token.split('.', 1)
ShiftForm(var_name, func_call, output_queue, operator_stack, variables) ==
    Let(strip(func_call, {"s", "h", "i", "f", "t", "(", ")"}),
        LAMBDA period :
            IF ~IsIntLiteral(period) THEN IntConversionError
            ELSE IF var_name \in DOMAIN variables
            THEN Ok([out |-> Append(output_queue,
                                    LagReference(variables[var_name], IntValue(period))),
                     stack |-> operator_stack])
            ELSE UnknownVariableForShift)

\* the arguments of a call: [arg.strip() for arg in args_str.split(',')]
SplitArgs(args_str) ==
    Let(split_sep(args_str, ","),
        LAMBDA raw : [i \in 1..Len(raw) |-> strip(raw[i], {" "})])

\* the try block of the indicator form: convert the arguments, call the indicator
CallIndicator(func_name, args, output_queue, operator_stack) ==
    IF \E i \in 1..Len(args) : ~IsFloatLiteral(args[i])
    THEN ArgumentConversionError
    ELSE Let(InvokeIndicator(func_name, [i \in 1..Len(args) |-> FloatValue(args[i])]),
             LAMBDA called :
                 IF called.ok
                 THEN Ok([out |-> Append(output_queue, called.val),
                          stack |-> operator_stack])
                 ELSE ArgumentConversionError)

\* the 'name(args)' form with the arguments converted before the name is
\* looked up
IndicatorForm_ConvertFirst(parts, output_queue, operator_stack, indicators) ==
    IF Len(parts) # 2 THEN UnpackError
    ELSE Let(SplitArgs(Front(parts[2])),
             LAMBDA args :
                 IF \E i \in 1..Len(args) : ~IsFloatLiteral(args[i])
                 THEN ArgumentConversionError
                 ELSE IF parts[1] \in DOMAIN indicators
                 THEN CallIndicator(parts[1], args, output_queue, operator_stack)
                 ELSE UnknownIndicatorFunction)

\* the 'name(args)' form, parts being token.split('(', 1)
IndicatorForm(parts, output_queue, operator_stack, indicators) ==
    IF Len(parts) # 2 THEN UnpackError
    ELSE IF parts[1] \in DOMAIN indicators
    THEN Let(SplitArgs(Front(parts[2])),
             LAMBDA args : CallIndicator(parts[1], args, output_queue, operator_stack))
    ELSE UnknownIndicatorFunction

\* the branch of a token that ends with ')'
CallForm(token, output_queue, operator_stack, variables, indicators) ==
    IF contains(token, ".") /\ contains(token, "shift")
    THEN Let(split_once(token, "."),
             LAMBDA parts : ShiftForm(parts[1], parts[2], output_queue, operator_stack,
                                      variables))
    ELSE Let(split_once(token, "("),
             LAMBDA parts : IndicatorForm(parts, output_queue, operator_stack, indicators))

\* one turn of "for token in tokens", an unknown name standing for zero
ProcessToken_DefaultZero(token, output_queue, operator_stack, columns, variables, indicators) ==
    IF isdigit(replace_first(token, "."))
    THEN Ok([out |-> Append(output_queue, Lit(FloatValue(token))), stack |-> operator_stack])
    ELSE IF token \in columns
    THEN Ok([out |-> Append(output_queue, Col(token)), stack |-> operator_stack])
    ELSE IF endswith(token, ")")
    THEN CallForm(token, output_queue, operator_stack, variables, indicators)
    ELSE IF token \in DOMAIN OPERATORS
    THEN PushOperator(output_queue, operator_stack, token)
    ELSE IF token \in DOMAIN variables
    THEN Ok([out |-> Append(output_queue, variables[token]), stack |-> operator_stack])
    ELSE Ok([out |-> Append(output_queue, Lit(Rat(0, 1))), stack |-> operator_stack])

\* one turn of "for token in tokens", a bound variable coming before all else
ProcessToken_VariablesFirst(token, output_queue, operator_stack, columns, variables, indicators) ==
    IF token \in DOMAIN variables
    THEN Ok([out |-> Append(output_queue, variables[token]), stack |-> operator_stack])
    ELSE IF isdigit(replace_first(token, "."))
    THEN Ok([out |-> Append(output_queue, Lit(FloatValue(token))), stack |-> operator_stack])
    ELSE IF token \in columns
    THEN Ok([out |-> Append(output_queue, Col(token)), stack |-> operator_stack])
    ELSE IF endswith(token, ")")
    THEN CallForm(token, output_queue, operator_stack, variables, indicators)
    ELSE IF token \in DOMAIN OPERATORS
    THEN PushOperator(output_queue, operator_stack, token)
    ELSE IF token = "("
    THEN Ok([out |-> output_queue, stack |-> Append(operator_stack, token)])
    ELSE IF token = ")"
    THEN CloseParen(output_queue, operator_stack)
    ELSE UnknownTokenOrVariable

\* one turn of "for token in tokens": the if/elif chain, in the source's order
ProcessToken(token, output_queue, operator_stack, columns, variables, indicators) ==
    IF isdigit(replace_first(token, "."))
    THEN Ok([out |-> Append(output_queue, Lit(FloatValue(token))), stack |-> operator_stack])
    ELSE IF token \in columns
    THEN Ok([out |-> Append(output_queue, Col(token)), stack |-> operator_stack])
    ELSE IF endswith(token, ")")
    THEN CallForm(token, output_queue, operator_stack, variables, indicators)
    ELSE IF token \in DOMAIN OPERATORS
    THEN PushOperator(output_queue, operator_stack, token)
    ELSE IF token = "("
    THEN Ok([out |-> output_queue, stack |-> Append(operator_stack, token)])
    ELSE IF token = ")"
    THEN CloseParen(output_queue, operator_stack)
    ELSE IF token \in DOMAIN variables
    THEN Ok([out |-> Append(output_queue, variables[token]), stack |-> operator_stack])
    ELSE UnknownTokenOrVariable

\* "while operator_stack": move what is left to the output
RECURSIVE DrainStack(_, _)
DrainStack(output_queue, operator_stack) ==
    IF operator_stack = <<>> THEN Ok(output_queue)
    ELSE IF Last(operator_stack) = "(" THEN MismatchedParentheses
    ELSE DrainStack(Append(output_queue, OpItem(Last(operator_stack))),
                    Front(operator_stack))

RECURSIVE ShuntingYardFrom(_, _, _, _, _, _, _)
ShuntingYardFrom(tokens, i, output_queue, operator_stack, columns, variables, indicators) ==
    IF i > Len(tokens) THEN DrainStack(output_queue, operator_stack)
    ELSE Let(ProcessToken(tokens[i], output_queue, operator_stack,
                          columns, variables, indicators),
             LAMBDA step :
                 IF ~step.ok THEN step
                 ELSE ShuntingYardFrom(tokens, i + 1, step.val.out, step.val.stack,
                                       columns, variables, indicators))

ShuntingYard(tokens, columns, variables, indicators) ==
    ShuntingYardFrom(tokens, 1, <<>>, <<>>, columns, variables, indicators)

(***************************************************************************)
(* LogicParser._evaluate_rpn                                               *)
(***************************************************************************)
\* "token in OPERATORS" for an item of the queue: true of an operator string,
\* taken as false of an expression (a pl.Expr is not a key of the dict)
IsOperatorItem(item) == item.k = "op" /\ item.sym \in DOMAIN OPERATORS

RECURSIVE EvaluateRpnFrom(_, _, _)
EvaluateRpnFrom(rpn_queue, i, stack) ==
    IF i > Len(rpn_queue)
    THEN IF Len(stack) # 1 THEN InvalidExpression ELSE Ok(stack[1])
    ELSE IF IsOperatorItem(rpn_queue[i])
    THEN IF Len(stack) < 2 THEN PopFromEmptyList
         ELSE LET right == stack[Len(stack)]
                  left == stack[Len(stack) - 1]
                  op_func == OPERATORS[rpn_queue[i].sym].func
              IN EvaluateRpnFrom(rpn_queue, i + 1,
                     Append(SubSeq(stack, 1, Len(stack) - 2), Bin(op_func, left, right)))
    ELSE EvaluateRpnFrom(rpn_queue, i + 1, Append(stack, rpn_queue[i]))

EvaluateRpn(rpn_queue) == EvaluateRpnFrom(rpn_queue, 1, <<>>)

(***************************************************************************)
(* Polars evaluation.  A row value is a number (a rational), a boolean or  *)
(* null.  "nonfinite" stands for the inf/NaN a float division by zero      *)
(* gives; no input of the model divides by zero, and the value is carried  *)
(* through unchanged.  Columns of a window and literals are Float64.       *)
(***************************************************************************)
Num(r) == [t |-> "num", n |-> r.n, d |-> r.d]
Bool(b) == [t |-> "bool", n |-> IF b THEN 1 ELSE 0, d |-> 1]
Null == [t |-> "null", n |-> 0, d |-> 1]
NonFinite == [t |-> "nonfinite", n |-> 0, d |-> 1]

ArithmeticOps == {"+", "-", "*", "/"}
ComparisonOps == {">", ">=", "<", "<=", "==", "!="}
LogicalOps == {"AND", "OR"}

\* operator.add / sub / mul / truediv on two numbers
Arith(op, a, b) ==
    CASE op = "+" -> Num(Rat(a.n * b.d + b.n * a.d, a.d * b.d))
      [] op = "-" -> Num(Rat(a.n * b.d - b.n * a.d, a.d * b.d))
      [] op = "*" -> Num(Rat(a.n * b.n, a.d * b.d))
      [] op = "/" -> IF b.n = 0 THEN NonFinite ELSE Num(Rat(a.n * b.d, a.d * b.n))

\* operator.gt / ge / lt / le / eq / ne on two numbers or two booleans
Compare(op, a, b) ==
    LET x == a.n * b.d
        y == b.n * a.d
    IN CASE op = ">" -> Bool(x > y)
         [] op = ">=" -> Bool(x >= y)
         [] op = "<" -> Bool(x < y)
         [] op = "<=" -> Bool(x <= y)
         [] op = "==" -> Bool(x = y)
         [] op = "!=" -> Bool(x # y)

\* operator.and_ / or_ on boolean columns: null is "unknown"
Logical(op, a, b) ==
    IF op = "AND"
    THEN IF a = Bool(FALSE) \/ b = Bool(FALSE) THEN Bool(FALSE)
         ELSE IF a = Null \/ b = Null THEN Null ELSE Bool(TRUE)
    ELSE IF a = Bool(TRUE) \/ b = Bool(TRUE) THEN Bool(TRUE)
         ELSE IF a = Null \/ b = Null THEN Null ELSE Bool(FALSE)

ApplyOp(op, a, b) ==
    IF op \in LogicalOps THEN
        IF a = NonFinite \/ b = NonFinite THEN NonFinite ELSE Logical(op, a, b)
    ELSE IF a = NonFinite \/ b = NonFinite THEN NonFinite
    ELSE IF a = Null \/ b = Null THEN Null
    ELSE IF op \in ArithmeticOps THEN Arith(op, a, b)
    ELSE Compare(op, a, b)

\* the dtype of an expression: "num", "bool", or "error" when polars rejects it
RECURSIVE TypeOf(_)
TypeOf(e) ==
    CASE e.k = "lit" -> "num"
      [] e.k = "col" -> "num"
      [] e.k = "rolling_mean" -> IF e.w.d = 1 /\ e.w.n >= 1 THEN "num" ELSE "error"
      [] e.k = "shift" -> TypeOf(e.e)
      [] e.k = "bin" ->
            LET tl == TypeOf(e.l)
                tr == TypeOf(e.r)
            IN IF e.op \in ArithmeticOps
               THEN IF tl = "num" /\ tr = "num" THEN "num" ELSE "error"
               ELSE IF e.op \in ComparisonOps
               THEN IF tl = tr /\ tl # "error" THEN "bool" ELSE "error"
               ELSE IF tl = "bool" /\ tr = "bool" THEN "bool" ELSE "error"

\* pl.DataFrame: the column names and the rows, oldest first
DataFrame(columns, rows) == [columns |-> columns, rows |-> rows]
EmptyDataFrame == DataFrame(<<>>, <<>>)
Height(df) == Len(df.rows)
is_empty_Never(df) == FALSE

is_empty(df) == Height(df) = 0
ColumnSet(df) == {df.columns[i] : i \in 1..Len(df.columns)}

RECURSIVE SumRows(_, _, _, _)
SumRows(df, name, from, to) ==
    IF from > to THEN 0 ELSE df.rows[to][name] + SumRows(df, name, from, to - 1)

\* the value of expression e on row i of df
RECURSIVE RowVal(_, _, _)
RowVal(e, df, i) ==
    CASE e.k = "lit" -> Num(e.v)
      [] e.k = "col" -> Num(Rat(df.rows[i][e.name], 1))
      [] e.k = "rolling_mean" ->
            IF i >= e.w.n
            THEN Num(Rat(SumRows(df, e.name, i - e.w.n + 1, i), e.w.n))
            ELSE Null
      [] e.k = "shift" ->
            IF i - e.n \in 1..Height(df) THEN RowVal(e.e, df, i - e.n) ELSE Null
      [] e.k = "bin" -> ApplyOp(e.op, RowVal(e.l, df, i), RowVal(e.r, df, i))

\* pl.Series: the dtype and the values, one per row of the window
Series(dtype, values) == [dtype |-> dtype, values |-> values]

\* df.with_columns(result=expr).get_column("result")
WithColumn(df, expr) ==
    Let(TypeOf(expr),
        LAMBDA dtype :
            IF dtype = "error" THEN PolarsError
            ELSE Ok(Series(dtype, [i \in 1..Height(df) |-> RowVal(expr, df, i)])))

\* df.filter(mask): the rows whose mask value is true; null counts as false
RECURSIVE KeepRows(_, _, _)
KeepRows(rows, values, i) ==
    IF i > Len(rows) THEN <<>>
    ELSE (IF values[i] = Bool(TRUE) THEN <<rows[i]>> ELSE <<>>)
         \o KeepRows(rows, values, i + 1)

Filter_LastRowOnly(df, mask) ==
    IF mask.dtype # "bool" THEN PolarsError
    ELSE Ok(DataFrame(df.columns,
                      IF Last(mask.values) = Bool(TRUE) THEN <<Last(df.rows)>> ELSE <<>>))

Filter(df, mask) ==
    IF mask.dtype # "bool" THEN PolarsError
    ELSE Ok(DataFrame(df.columns, KeepRows(df.rows, mask.values, 1)))

(***************************************************************************)
(* LogicParser: [indicators, data, variables]                              *)
(***************************************************************************)
NoVariables == <<>>

\* LogicParser.__init__
NewLogicParser(indicators, data) ==
    [indicators |-> indicators, data |-> data, variables |-> NoVariables]

\* _parse_tokens, _shunting_yard, _evaluate_rpn in a row
Compile(parser, expression) ==
    Let(ShuntingYard(ParseTokens(expression), ColumnSet(parser.data), parser.variables,
                     parser.indicators),
        LAMBDA rpn_queue : IF rpn_queue.ok THEN EvaluateRpn(rpn_queue.val) ELSE rpn_queue)

\* LogicParser.evaluate: the boolean column, or the exception
Evaluate(parser, expression) ==
    Let(Compile(parser, expression),
        LAMBDA final_expr :
            IF final_expr.ok THEN WithColumn(parser.data, final_expr.val) ELSE final_expr)

\* evaluate with result_df kept as the parser's window
EvaluateEffect_KeepsResult(parser, expression) ==
    Let(Evaluate(parser, expression),
        LAMBDA series :
            [res |-> series,
             parser |-> IF series.ok
                        THEN [parser EXCEPT !.data.columns = Append(@, "result")]
                        ELSE parser])

\* LogicParser.evaluate: the outcome and the parser after the call; result_df
\* is a local, and nothing is assigned to self
EvaluateEffect(parser, expression) ==
    [res |-> Evaluate(parser, expression), parser |-> parser]

\* set_variable with the name unbound as soon as the call starts
SetVariable_UnbindsFirst(parser, var_name, expression) ==
    Let(Compile(parser, expression),
        LAMBDA expr_to_save :
            IF expr_to_save.ok
            THEN [res |-> Ok(<<>>),
                  parser |-> [parser EXCEPT !.variables =
                                 (var_name :> expr_to_save.val) @@ parser.variables]]
            ELSE [res |-> expr_to_save,
                  parser |-> [parser EXCEPT !.variables =
                                 [n \in (DOMAIN parser.variables) \ {var_name} |->
                                     parser.variables[n]]]])

\* LogicParser.set_variable: the outcome and the parser after the call
SetVariable(parser, var_name, expression) ==
    Let(Compile(parser, expression),
        LAMBDA expr_to_save :
            IF expr_to_save.ok
            THEN [res |-> Ok(<<>>),
                  parser |-> [parser EXCEPT !.variables =
                                 (var_name :> expr_to_save.val) @@ parser.variables]]
            ELSE [res |-> expr_to_save, parser |-> parser])

(***************************************************************************)
(* ScanEngine.run_scan                                                     *)
(***************************************************************************)
\* "for var in strategy['variables']": stops at the first set_variable that raises
RECURSIVE BindVariables(_, _, _)
BindVariables(parser, variables, i) ==
    IF i > Len(variables) THEN [res |-> Ok(<<>>), parser |-> parser, calls |-> i - 1]
    ELSE Let(SetVariable(parser, variables[i].name, variables[i].expression),
             LAMBDA bound :
                 IF ~bound.res.ok
                 THEN [res |-> bound.res, parser |-> bound.parser, calls |-> i]
                 ELSE BindVariables(bound.parser, variables, i + 1))

\* the statements of the try block after evaluate: filter the window with the mask
FilterWithMask(ohlcv_df, mask) ==
    IF ~mask.ok THEN [mask |-> mask, steps |-> <<"evaluate">>, result |-> mask]
    ELSE [mask |-> mask, steps |-> <<"evaluate", "filter">>,
          result |-> Filter(ohlcv_df, mask.val)]

\* the try block and its except clause: any exception gives the empty frame
TryEvaluate(parser, ohlcv_df, final_condition) ==
    Let(FilterWithMask(ohlcv_df, Evaluate(parser, final_condition)),
        LAMBDA tried :
            IF tried.result.ok THEN tried
            ELSE [tried EXCEPT !.result = Ok(EmptyDataFrame)])

\* run_scan once the variables are bound (or one of them has failed)
AfterBinding(bound, ohlcv_df, final_condition) ==
    IF ~bound.res.ok
    THEN [result |-> bound.res, parser |-> bound.parser, mask |-> Ok(<<>>),
          steps |-> <<"LogicParser">> \o [i \in 1..bound.calls |-> "set_variable"]]
    ELSE Let(TryEvaluate(bound.parser, ohlcv_df, final_condition),
             LAMBDA tried :
                 [result |-> tried.result, parser |-> bound.parser, mask |-> tried.mask,
                  steps |-> <<"LogicParser">>
                            \o [i \in 1..bound.calls |-> "set_variable"]
                            \o tried.steps])

\* run_scan after the fetch, keeping the parser it finds in self.parser
\* instead of making a new one
RunScanAfterFetch_SharedParser(self_parser, indicators, strat, ohlcv_df) ==
    IF is_empty(ohlcv_df)
    THEN [result |-> Ok(EmptyDataFrame), parser |-> self_parser,
          mask |-> Ok(<<>>), steps |-> <<>>]
    ELSE Let(BindVariables(IF self_parser = [k |-> "None"]
                           THEN NewLogicParser(indicators, ohlcv_df)
                           ELSE self_parser,
                           strat.variables, 1),
             LAMBDA bound : AfterBinding(bound, ohlcv_df, strat.condition))

\* run_scan from the point where the awaited fetch has returned ohlcv_df:
\* what it returns or raises, self.parser afterwards, and the steps it took
RunScanAfterFetch(self_parser, indicators, strat, ohlcv_df) ==
    IF is_empty(ohlcv_df)
    THEN [result |-> Ok(EmptyDataFrame), parser |-> self_parser,
          mask |-> Ok(<<>>), steps |-> <<>>]
    ELSE Let(BindVariables(NewLogicParser(indicators, ohlcv_df), strat.variables, 1),
             LAMBDA bound : AfterBinding(bound, ohlcv_df, strat.condition))

(***************************************************************************)
(* Inputs of the scan                                                      *)
(***************************************************************************)
MaxRows == 3
CloseValues == {1, 2, 3}

VariableDecl(name, expression) == [name |-> name, expression |-> expression]

VariableLists ==
    { <<>>,
      <<VariableDecl("x", "close")>>,
      <<VariableDecl("x", "close"), VariableDecl("y", "x.shift(1)")>>,
      <<VariableDecl("x", "foo")>>,
      <<VariableDecl("x", "close"), VariableDecl("y", "z.shift(1)")>> }

Conditions ==
    { "close > 2",
      "x.shift(1) < close",
      "y < close",
      "close > 1 AND close < 3",
      "close >",
      "close 2",
      "close + 1",
      "( close > 1 )" }

Strategies == [variables : VariableLists, condition : Conditions]

\* the windows the broker can return: rows in ascending timestamp order, or
\* the empty frame (no data, or a failed request)
WindowOf(closes) ==
    IF closes = <<>> THEN EmptyDataFrame
    ELSE DataFrame(<<"timestamp", "close">>,
                   [i \in 1..Len(closes) |-> [timestamp |-> i, close |-> closes[i]]])

Windows == {WindowOf(c) : c \in UNION {[1..n -> CloseValues] : n \in 0..MaxRows}}

\* the tickers run_scan_background passes
BackgroundTickers == <<"KRW-BTC", "KRW-ETH">>
NoTickers == <<>>

(***************************************************************************)
(* Inputs of the parser                                                    *)
(***************************************************************************)
MaxOps == 2
MaxTokens == 4
MaxCalls == 3

\* the window of a parser that is handed expressions directly
ParserWindow == WindowOf(<<1, 3, 2>>)

\* the numerals written at the leaves of an infix expression, left to right
NumeralLists == { <<"2", "3", "4", "5", "6">>, <<"10", "3", "2", "1.5", "7">> }

\* the groupings with n operators whose leaves are lits[first], lits[first+1], ...
RECURSIVE Groupings(_, _, _)
Groupings(n, first, lits) ==
    IF n = 0 THEN {Lit(FloatValue(lits[first]))}
    ELSE UNION { { Bin(op, l, r) : op \in OperatorTokens,
                                   l \in Groupings(k, first, lits),
                                   r \in Groupings(n - 1 - k, first + k + 1, lits) }
                 : k \in 0..(n - 1) }

\* the level of an operator in the documented precedence table
Level(op) ==
    CASE op \in {"*", "/"} -> 4
      [] op \in {"+", "-"} -> 3
      [] op \in {">", ">=", "<", "<=", "==", "!="} -> 2
      [] op \in {"AND", "OR"} -> 1

Numerals == UNION {{lits[i] : i \in 1..Len(lits)} : lits \in NumeralLists}
NumeralOf(v) == CHOOSE s \in Numerals : FloatValue(s) = v

\* the grouping written as tokens, with parentheses only where the precedence
\* table and left-to-right grouping would otherwise read it differently
RECURSIVE Infix(_)
Parenthesised(e, needed) ==
    IF needed THEN <<"(">> \o Infix(e) \o <<")">> ELSE Infix(e)

Infix(e) ==
    IF e.k = "lit" THEN <<NumeralOf(e.v)>>
    ELSE Parenthesised(e.l, e.l.k = "bin" /\ Level(e.l.op) < Level(e.op))
         \o <<e.op>>
         \o Parenthesised(e.r, e.r.k = "bin" /\ Level(e.r.op) <= Level(e.op))

InfixInputs ==
    UNION { UNION { Groupings(n, 1, lits) : n \in 0..MaxOps } : lits \in NumeralLists }

\* token sequences made of valid operands, operators and parentheses
Vocabulary == {"2", "close", "+", "<", "(", ")"}
TokenInputs == UNION {[1..n -> Vocabulary] : n \in 0..MaxTokens}

\* the windows, names and expressions of a LogicParser session
SessionWindows ==
    { WindowOf([i \in 1..MaxRows |-> i]),
      WindowOf([i \in 1..MaxRows |-> MaxRows + 1 - i]),
      WindowOf([i \in 1..MaxRows |-> IF i = 2 THEN 3 ELSE 1]) }

VariableNames == {"x", "y"}
Lags == {0, 1, 2}
LagText(n) == CASE n = 0 -> "0" [] n = 1 -> "1" [] n = 2 -> "2"
ShiftLess(name, n) == name \o ".shift(" \o LagText(n) \o ") < close"

BindExpressions == {"close", "close + x", "x.shift(1)", "y", "z.shift(1)"}
EvaluateExpressions ==
    {ShiftLess(name, n) : name \in VariableNames, n \in Lags}
    \cup {"x < close", "z < close", "y.shift(1) > x"}

(***************************************************************************)
(* State                                                                   *)
(***************************************************************************)
VARIABLES
    pc,         \* where the call is: "idle", "fetching", "returned", "raised" for
                \* run_scan; "tokens", "queued", "built", "raised" for the parser
                \* steps; "session" for a LogicParser in use
    strategy,   \* the strategy argument of the call
    tickers,    \* the tickers argument of the call (NoTickers when none is passed)
    requests,   \* the tickers asked of broker.get_ohlcv so far
    ohlcv_df,   \* the window the fetch returned
    parser,     \* ScanEngine.parser, or the LogicParser of a session
    result,     \* what the call returned or raised
    mask,       \* what evaluate returned or raised in the call
    steps,      \* the steps the call took after the fetch
    tokens,     \* the token list handed to _shunting_yard
    ast,        \* the grouping the token list was written from, when it was
    rpn,        \* what _shunting_yard returned or raised
    final,      \* what _evaluate_rpn returned or raised
    last,       \* the last call made on the LogicParser of a session, or on
                \* the strategy service
    ncalls,     \* the number of calls made on it
    prev,       \* the call made before the last one
    parser0,    \* the LogicParser as it was when the last call was made
    db,         \* the strategies table: the stored rows, in id order
    clock,      \* the database time, func.now()
    invocations \* the run_scan invocations in progress on one ScanEngine

scanVars == <<strategy, tickers, requests, ohlcv_df, result, mask, steps>>
parseVars == <<tokens, ast, rpn, final>>
sessionVars == <<last, ncalls, prev, parser0>>
storeVars == <<db, clock>>
vars == <<pc, parser, scanVars, parseVars, sessionVars, storeVars, invocations>>

None == [k |-> "None"]
NoStrategy == [variables |-> <<>>, condition |-> ""]

NoScan ==
    /\ strategy = NoStrategy
    /\ tickers = NoTickers
    /\ requests = <<>>
    /\ ohlcv_df = EmptyDataFrame
    /\ result = Ok(<<>>)
    /\ mask = Ok(<<>>)
    /\ steps = <<>>

NoParse ==
    /\ tokens = <<>>
    /\ ast = None
    /\ rpn = None
    /\ final = None

NoSession ==
    /\ last = None
    /\ ncalls = 0
    /\ prev = None
    /\ parser0 = None

NoStore ==
    /\ db = <<>>
    /\ clock = 0

NoInvocations == invocations = <<>>

\* ScanEngine.__init__, before any call
Init ==
    /\ pc = "idle"
    /\ parser = None
    /\ NoScan
    /\ NoStore
    /\ NoInvocations
    /\ NoParse
    /\ NoSession

\* engine.run_scan(strategy): runs to the await of _fetch_data, which asks the
\* broker for "KRW-BTC"
CallRunScan(strat) ==
    /\ pc = "idle"
    /\ pc' = "fetching"
    /\ strategy' = strat
    /\ requests' = Append(requests, "KRW-BTC")
    /\ UNCHANGED <<tickers, ohlcv_df, parser, result, mask, steps, parseVars, sessionVars, storeVars, invocations>>

\* run_scan_background: engine.run_scan(strategy.scan_logic, tickers=[...]);
\* run_scan has no such parameter, so the call itself raises TypeError
RunScanBackground(strat) ==
    /\ pc = "idle"
    /\ pc' = "raised"
    /\ strategy' = strat
    /\ tickers' = BackgroundTickers
    /\ result' = Raise("TypeError", "unexpected keyword argument 'tickers'")
    /\ UNCHANGED <<requests, ohlcv_df, parser, mask, steps, parseVars, sessionVars, storeVars, invocations>>

\* the fetch returns df and run_scan runs to its end without suspending again
FetchReturns(df) ==
    /\ pc = "fetching"
    /\ \E run \in {RunScanAfterFetch(parser, mock_indicators, strategy, df)} :
          /\ pc' = IF run.result.ok THEN "returned" ELSE "raised"
          /\ result' = run.result
          /\ parser' = run.parser
          /\ mask' = run.mask
          /\ steps' = run.steps
    /\ ohlcv_df' = df
    /\ UNCHANGED <<strategy, tickers, requests, parseVars, sessionVars, storeVars, invocations>>

Next ==
    \/ \E strat \in Strategies : CallRunScan(strat)
    \/ \E strat \in Strategies : RunScanBackground(strat)
    \/ \E df \in Windows : FetchReturns(df)

Spec == Init /\ [][Next]_vars

(***************************************************************************)
(* Several run_scan invocations on one ScanEngine.  A coroutine gives up   *)
(* the event loop only at an await, and run_scan has one: the fetch.       *)
(***************************************************************************)
MaxInvocations == 2

\* strategies that tell bindings apart: the same condition with x declared,
\* declared differently, and not declared
ConcurrentStrategies ==
    { [variables |-> <<VariableDecl("x", "close")>>, condition |-> "x > 2"],
      [variables |-> <<VariableDecl("x", "close + 1")>>, condition |-> "x > 2"],
      [variables |-> <<>>, condition |-> "x > 2"],
      [variables |-> <<>>, condition |-> "close > 1"] }

ConcurrentWindows == {EmptyDataFrame, WindowOf(<<1, 3>>), WindowOf(<<3, 1, 2>>)}

\* the frame of one invocation: its argument, the window its fetch returned,
\* self.parser as it found it on resuming, the parser it evaluated with, and
\* what it returned or raised
Invocation(strat) ==
    [pc |-> "fetching", strategy |-> strat, ohlcv_df |-> EmptyDataFrame,
     found |-> None, parser |-> None, result |-> None]

InitConcurrent ==
    /\ pc = "engine"
    /\ parser = None
    /\ invocations = <<>>
    /\ NoScan
    /\ NoStore
    /\ NoParse
    /\ NoSession

\* engine.run_scan(strategy) is called and runs to the await of _fetch_data
StartRunScan(strat) ==
    /\ pc = "engine"
    /\ Len(invocations) < MaxInvocations
    /\ invocations' = Append(invocations, Invocation(strat))
    /\ UNCHANGED <<pc, parser, scanVars, parseVars, sessionVars, storeVars>>

\* the fetch of invocation i returns df; the invocation resumes and runs to
\* its end, reading and writing self.parser, before any other coroutine runs
ResumeRunScan(i, df) ==
    /\ pc = "engine"
    /\ i \in DOMAIN invocations
    /\ invocations[i].pc = "fetching"
    /\ \E run \in {RunScanAfterFetch(parser, mock_indicators, invocations[i].strategy, df)} :
          /\ parser' = run.parser
          /\ invocations' =
                 [invocations EXCEPT ![i] =
                     [pc |-> IF run.result.ok THEN "returned" ELSE "raised",
                      strategy |-> invocations[i].strategy,
                      ohlcv_df |-> df,
                      found |-> parser,
                      parser |-> run.parser,
                      result |-> run.result]]
    /\ UNCHANGED <<pc, scanVars, parseVars, sessionVars, storeVars>>

NextConcurrent ==
    \/ \E strat \in ConcurrentStrategies : StartRunScan(strat)
    \/ \E i \in 1..MaxInvocations, df \in ConcurrentWindows : ResumeRunScan(i, df)

SpecConcurrent == InitConcurrent /\ [][NextConcurrent]_vars

(***************************************************************************)
(* _shunting_yard and _evaluate_rpn applied to a token list                *)
(***************************************************************************)
\* a parser over ParserWindow with no variable bound, given an infix expression
InitInfix ==
    /\ pc = "tokens"
    /\ parser = NewLogicParser(mock_indicators, ParserWindow)
    /\ ast \in InfixInputs
    /\ tokens = Infix(ast)
    /\ rpn = None
    /\ final = None
    /\ NoScan
    /\ NoStore
    /\ NoInvocations
    /\ NoSession

\* the same parser given any token list
InitTokens ==
    /\ pc = "tokens"
    /\ parser = NewLogicParser(mock_indicators, ParserWindow)
    /\ ast = None
    /\ tokens \in TokenInputs
    /\ rpn = None
    /\ final = None
    /\ NoScan
    /\ NoStore
    /\ NoInvocations
    /\ NoSession

\* rpn_queue = self._shunting_yard(tokens)
ShuntingYardStep ==
    /\ pc = "tokens"
    /\ \E rpn_queue \in {ShuntingYard(tokens, ColumnSet(parser.data), parser.variables,
                                      parser.indicators)} :
          /\ rpn' = rpn_queue
          /\ pc' = IF rpn_queue.ok THEN "queued" ELSE "raised"
    /\ UNCHANGED <<parser, tokens, ast, final, scanVars, sessionVars, storeVars, invocations>>

\* final_expr = self._evaluate_rpn(rpn_queue)
EvaluateRpnStep ==
    /\ pc = "queued"
    /\ \E final_expr \in {EvaluateRpn(rpn.val)} :
          /\ final' = final_expr
          /\ pc' = IF final_expr.ok THEN "built" ELSE "raised"
    /\ UNCHANGED <<parser, tokens, ast, rpn, scanVars, sessionVars, storeVars, invocations>>

NextParse ==
    \/ ShuntingYardStep
    \/ EvaluateRpnStep

SpecInfix == InitInfix /\ [][NextParse]_vars

SpecTokens == InitTokens /\ [][NextParse]_vars

(***************************************************************************)
(* _shunting_yard and _evaluate_rpn applied to an indicator call           *)
(***************************************************************************)
\* the names and the argument lists written in a call token
CallNames == {"ma", "foo", ""}
CallArguments ==
    { <<>>, <<"3">>, <<"2.5">>, <<"abc">>, <<"-1">>,
      <<"1", "2">>, <<"3", "abc">>, <<"abc", "3">> }

RECURSIVE JoinArgs(_)
JoinArgs(args) ==
    IF args = <<>> THEN ""
    ELSE IF Len(args) = 1 THEN args[1]
    ELSE args[1] \o "," \o JoinArgs(Tail(args))

\* the token name(arg,...,arg)
CallToken(c) == c.name \o "(" \o JoinArgs(c.args) \o ")"

IndicatorCall(name, args) == [k |-> "call", name |-> name, args |-> args]

\* the call alone, or as an operand of a comparison
CallExpressions(c) ==
    { <<CallToken(c)>>, <<CallToken(c), ">", "2">>, <<"close", "<", CallToken(c)>> }

InitCalls ==
    /\ pc = "tokens"
    /\ parser = NewLogicParser(mock_indicators, ParserWindow)
    /\ ast \in {IndicatorCall(name, args) : name \in CallNames, args \in CallArguments}
    /\ tokens \in CallExpressions(ast)
    /\ rpn = None
    /\ final = None
    /\ NoScan
    /\ NoStore
    /\ NoInvocations
    /\ NoSession

SpecCalls == InitCalls /\ [][NextParse]_vars

(***************************************************************************)
(* A LogicParser in use: set_variable and evaluate calls in any order      *)
(***************************************************************************)
InitSession ==
    /\ pc = "session"
    /\ parser \in {NewLogicParser(mock_indicators, w) : w \in SessionWindows}
    /\ NoScan
    /\ NoStore
    /\ NoInvocations
    /\ NoParse
    /\ NoSession

Call(op, var_name, expression, before, res) ==
    [op |-> op, name |-> var_name, expression |-> expression, before |-> before,
     res |-> res]

\* parser.set_variable(var_name, expression)
SetVariableCall(var_name, expression) ==
    /\ pc = "session"
    /\ ncalls < MaxCalls
    /\ \E bound \in {SetVariable(parser, var_name, expression)} :
          /\ parser' = bound.parser
          /\ last' = Call("set_variable", var_name, expression, parser.variables, bound.res)
    /\ ncalls' = ncalls + 1
    /\ prev' = last
    /\ parser0' = parser
    /\ UNCHANGED <<pc, scanVars, parseVars, storeVars, invocations>>

\* parser.evaluate(expression)
EvaluateCall(expression) ==
    /\ pc = "session"
    /\ ncalls < MaxCalls
    /\ \E run \in {EvaluateEffect(parser, expression)} :
          /\ parser' = run.parser
          /\ last' = Call("evaluate", "", expression, parser.variables, run.res)
    /\ ncalls' = ncalls + 1
    /\ prev' = last
    /\ parser0' = parser
    /\ UNCHANGED <<pc, scanVars, parseVars, storeVars, invocations>>

NextSession ==
    \/ \E var_name \in VariableNames, expression \in BindExpressions :
          SetVariableCall(var_name, expression)
    \/ \E expression \in EvaluateExpressions : EvaluateCall(expression)

SpecParser == InitSession /\ [][NextSession]_vars

(***************************************************************************)
(* The same calls with names that are also a column, a number, an operator *)
(***************************************************************************)
\* var_name of set_variable: a column name, a plain name, a numeral, an operator
ResolvedNames == {"close", "x", "2", "+"}

\* what the names are bound to; neither has the value of close or of 2
NameBindExpressions == {"close + 1", "3"}

LagOne(name) == name \o ".shift(1)"

\* a name as the only token, and its lag form as the only token
NameExpressions == ResolvedNames \cup {LagOne(name) : name \in ResolvedNames}

NextNames ==
    \/ \E var_name \in ResolvedNames, expression \in NameBindExpressions :
          SetVariableCall(var_name, expression)
    \/ \E expression \in NameExpressions : EvaluateCall(expression)

SpecNames == InitSession /\ [][NextNames]_vars

(***************************************************************************)
(* strategy_service over the strategies table.  A column value is a string *)
(* (a boolean is "True" or "False", a JSON document is named by a string); *)
(* NULL is SQL NULL, Python None.  Times are integers; updated_at is 0     *)
(* until the row is first updated.  Every call has a session of its own,   *)
(* closed after the call, so a commit that fails leaves the table as it    *)
(* was.                                                                    *)
(***************************************************************************)
MaxRequests == 2

NULL == "NULL"

\* the fields of StrategyUpdate
UpdateFields == {"name", "description", "scan_logic", "is_active", "cron_schedule"}

\* a row of the strategies table
Strategy(id, name, description, scan_logic, is_active, cron_schedule, created_at) ==
    [id |-> id, name |-> name, description |-> description, scan_logic |-> scan_logic,
     is_active |-> is_active, cron_schedule |-> cron_schedule,
     created_at |-> created_at, updated_at |-> 0]

\* StrategyUpdate(**given): every field not given has its default, None
StrategyUpdate(given) ==
    [values |-> [f \in UpdateFields |-> IF f \in DOMAIN given THEN given[f] ELSE NULL],
     fields_set |-> DOMAIN given]

\* strategy_update.dict(): every field, set or not
Dict(strategy_update) == strategy_update.values

\* strategy_update.dict(exclude_unset=True): the fields that were given
DictExcludeUnset(strategy_update) ==
    [f \in strategy_update.fields_set |-> strategy_update.values[f]]

\* the position of the row with the id, or 0
RowOf(table, strategy_id) ==
    IF \E i \in 1..Len(table) : table[i].id = strategy_id
    THEN CHOOSE i \in 1..Len(table) : table[i].id = strategy_id
    ELSE 0

\* get_strategy: the row, or None
GetStrategy(table, strategy_id) ==
    IF RowOf(table, strategy_id) = 0 THEN None ELSE table[RowOf(table, strategy_id)]

\* "for key, value in update_data.items(): setattr(db_strategy, key, value)"
SetAttrs(db_strategy, update_data) ==
    [f \in DOMAIN db_strategy |->
        IF f \in DOMAIN update_data THEN update_data[f] ELSE db_strategy[f]]

\* nullable=False on name; None in the JSON column scan_logic is stored as the
\* JSON null, which the NOT NULL constraint accepts
NotNullViolated(db_strategy) == db_strategy.name = NULL

\* db.commit() and db.refresh(): no UPDATE without a changed column; an UPDATE
\* sets updated_at to now, or fails on a NULL in a NOT NULL column
Commit(table, i, db_strategy, now) ==
    IF db_strategy = table[i] THEN [res |-> Ok(db_strategy), db |-> table]
    ELSE IF NotNullViolated(db_strategy)
    THEN [res |-> Raise("IntegrityError", "NOT NULL constraint failed"), db |-> table]
    ELSE Let([db_strategy EXCEPT !.updated_at = now],
             LAMBDA stored : [res |-> Ok(stored), db |-> [table EXCEPT ![i] = stored]])

\* update_strategy: what it returns or raises, and the table afterwards
UpdateStrategy(table, strategy_id, strategy_update, now) ==
    Let(RowOf(table, strategy_id),
        LAMBDA i :
            IF i = 0 THEN [res |-> Ok(None), db |-> table]
            ELSE Commit(table, i, SetAttrs(table[i], DictExcludeUnset(strategy_update)),
                        now))

\* the stored strategies the calls start from, as create_strategy stores them
StoredStrategies ==
    << Strategy(1, "Test MA Cross", "A simple strategy", "logic-1", "True", "*/10", 1),
       Strategy(2, "Other", NULL, "logic-2", "False", NULL, 1) >>

InitialTables == {SubSeq(StoredStrategies, 1, n) : n \in 1..Len(StoredStrategies)}

StrategyIds == {1, 2, 3}

StrategyUpdates ==
    { StrategyUpdate(<<>>),
      StrategyUpdate(("name" :> "Updated") @@ ("is_active" :> "False")),
      StrategyUpdate("name" :> "Test MA Cross"),
      StrategyUpdate("name" :> NULL),
      StrategyUpdate("description" :> NULL),
      StrategyUpdate(("scan_logic" :> "logic-3") @@ ("cron_schedule" :> "*/5")),
      StrategyUpdate("scan_logic" :> NULL),
      StrategyUpdate("is_active" :> "True") }

InitStore ==
    /\ pc = "service"
    /\ parser = None
    /\ db \in InitialTables
    /\ clock = 1
    /\ NoScan
    /\ NoInvocations
    /\ NoParse
    /\ NoSession

\* the table and the time at which a call is made
AtCall == [table |-> db, now |-> clock]

\* strategy_service.update_strategy(db, strategy_id, strategy_update)
UpdateStrategyCall(strategy_id, strategy_update) ==
    /\ pc = "service"
    /\ ncalls < MaxRequests
    /\ \E run \in {UpdateStrategy(db, strategy_id, strategy_update, clock)} :
          /\ db' = run.db
          /\ last' = Call("update_strategy", strategy_id, strategy_update, AtCall, run.res)
    /\ prev' = last
    /\ ncalls' = ncalls + 1
    /\ UNCHANGED <<pc, parser, parser0, clock, scanVars, parseVars, invocations>>

\* strategy_service.get_strategy(db, strategy_id)
GetStrategyCall(strategy_id) ==
    /\ pc = "service"
    /\ ncalls < MaxRequests
    /\ last' = Call("get_strategy", strategy_id, <<>>, AtCall,
                   Ok(GetStrategy(db, strategy_id)))
    /\ prev' = last
    /\ ncalls' = ncalls + 1
    /\ UNCHANGED <<pc, parser, parser0, db, clock, scanVars, parseVars, invocations>>

\* time passes in the database
Tick ==
    /\ pc = "service"
    /\ clock <= MaxRequests
    /\ clock' = clock + 1
    /\ UNCHANGED <<pc, parser, db, scanVars, parseVars, sessionVars, invocations>>

NextStore ==
    \/ \E strategy_id \in StrategyIds, strategy_update \in StrategyUpdates :
          UpdateStrategyCall(strategy_id, strategy_update)
    \/ \E strategy_id \in StrategyIds : GetStrategyCall(strategy_id)
    \/ Tick

SpecStore == InitStore /\ [][NextStore]_vars

(***************************************************************************)
(* Properties of run_scan, checked under Spec                              *)
(***************************************************************************)
\* the call went through the fetch and has ended
ScanEnded == pc \in {"returned", "raised"} /\ requests # <<>>

\* the call evaluated the condition to a boolean column and filtered with it
MaskApplied ==
    /\ pc = "returned"
    /\ steps # <<>>
    /\ Last(steps) = "filter"
    /\ mask.ok
    /\ mask.val.dtype = "bool"

RowSet(df) == {df.rows[i] : i \in 1..Len(df.rows)}

\* C1: no exception escapes run_scan: whatever fails while an instrument is
\* processed (the fetch, binding a declared variable, evaluating the
\* condition), the call still returns a result set.
C1_NoExceptionEscapes == ScanEnded => (pc = "returned" /\ result.ok)

C3_FetchesEachListedInstrument ==
    (pc \in {"returned", "raised"} /\ tickers # NoTickers) =>
        (pc = "returned" /\ requests = tickers)

\* C4: an empty window ends the scan at once: no LogicParser is made, no
\* variable is bound, no condition is evaluated, nothing is raised, and the
\* result is the empty frame.
C4_EmptyWindowSkipped ==
    (ScanEnded /\ ohlcv_df.rows = <<>>) =>
        /\ pc = "returned"
        /\ result = Ok(EmptyDataFrame)
        /\ steps = <<>>
        /\ parser = None

\* a scan of a strategy that declares variables, over an empty window
C4_Witness ==
    /\ ScanEnded
    /\ ohlcv_df.rows = <<>>
    /\ strategy.variables # <<>>
    /\ pc = "returned"

(***************************************************************************)
(* Properties of _shunting_yard and _evaluate_rpn, checked under SpecInfix *)
(* and SpecTokens                                                          *)
(***************************************************************************)
ParseEnded == pc \in {"built", "raised"}

\* the value of an expression built from literals only
ValueOf(e) == RowVal(e, ParserWindow, 1)

\* C5: an infix expression over numeric literals, binary operators and
\* parentheses, put through _shunting_yard and then _evaluate_rpn, gives the
\* value of the grouping it was written from: the precedence table decides
\* where nothing is parenthesised, and explicit parentheses override it.
C5_GroupedByPrecedence ==
    (ParseEnded /\ ast # None) =>
        /\ pc = "built"
        /\ final.ok
        /\ ValueOf(final.val) = ValueOf(ast)

IsParenthesis(token) == token \in {"(", ")"}

\* a op1 b op2 c ... with no parentheses and every operator on one level
SameLevelChain ==
    /\ ast # None
    /\ Len(tokens) >= 5
    /\ \A i \in 1..Len(tokens) : ~IsParenthesis(tokens[i])
    /\ \A i, j \in 1..Len(tokens) :
          (tokens[i] \in OperatorTokens /\ tokens[j] \in OperatorTokens)
              => Level(tokens[i]) = Level(tokens[j])

\* the chain grouped left to right: ((a op1 b) op2 c) ...
RECURSIVE LeftToRight(_)
LeftToRight(chain) ==
    IF Len(chain) = 1 THEN Lit(FloatValue(chain[1]))
    ELSE Bin(chain[Len(chain) - 1],
             LeftToRight(SubSeq(chain, 1, Len(chain) - 2)),
             Lit(FloatValue(chain[Len(chain)])))

\* C6: a chain of operators of one precedence level (AND with OR, the
\* comparisons with each other, + with -, * with /) compiles without error
\* to the left-to-right grouping, each operator's left operand being what is
\* written to its left; "10 - 3 - 2" has the value 5.
C6_EqualPrecedenceLeftToRight ==
    (SameLevelChain /\ pc # "tokens") =>
        /\ pc # "raised"
        /\ pc = "built" =>
              /\ final = Ok(LeftToRight(tokens))
              /\ tokens = <<"10", "-", "3", "-", "2">>
                    => ValueOf(final.val) = Num(Rat(5, 1))

\* "10 - 3 - 2" compiled to the end
C6_Witness ==
    /\ pc = "built"
    /\ SameLevelChain
    /\ tokens = <<"10", "-", "3", "-", "2">>
    /\ final.ok

\* the number of "(" open after the first i tokens, or -1 once a ")" has come
\* with none open
RECURSIVE OpenAfter(_, _)
OpenAfter(toks, i) ==
    IF i = 0 THEN 0
    ELSE LET before == OpenAfter(toks, i - 1)
         IN IF before < 0 THEN before
            ELSE IF toks[i] = "(" THEN before + 1
            ELSE IF toks[i] = ")" THEN before - 1
            ELSE before

Unbalanced(toks) == OpenAfter(toks, Len(toks)) # 0

\* C7: a token list whose parentheses are not balanced (its other tokens
\* being valid operands and operators) makes _shunting_yard fail with the
\* "Mismatched parentheses" error, and no queue is returned.
C7_UnbalancedIsMismatched ==
    (ast = None /\ pc # "tokens" /\ Unbalanced(tokens)) => rpn = MismatchedParentheses

\* the operands left on the stack after the first i items of the queue, or -1
\* once an operator has found fewer than two
RECURSIVE OperandsLeft(_, _)
OperandsLeft(queue, i) ==
    IF i = 0 THEN 0
    ELSE LET before == OperandsLeft(queue, i - 1)
         IN IF before < 0 THEN before
            ELSE IF queue[i].k # "op" THEN before + 1
            ELSE IF before < 2 THEN 0 - 1
            ELSE before - 1

\* C10: _evaluate_rpn returns a result exactly when one item is left on the
\* stack at the end, and in every other case (empty queue, leftover operands,
\* an operator with fewer than two operands) it fails with the
\* "Invalid expression" error.
C10_OnlyInvalidExpression ==
    (ast = None /\ ParseEnded /\ rpn.ok) =>
        IF OperandsLeft(rpn.val, Len(rpn.val)) = 1
        THEN final.ok
        ELSE final = InvalidExpression

(***************************************************************************)
(* Properties of a LogicParser in use, checked under SpecParser            *)
(***************************************************************************)
KnownNames == VariableNames \cup {"z"}

\* the expression has name as a token of its own or as name.shift(...)
Refers(expression, name) ==
    \E i \in 1..Len(ParseTokens(expression)) :
        LET token == ParseTokens(expression)[i]
            lagged == name \o ".shift("
        IN \/ token = name
           \/ Len(token) > Len(lagged) /\ SubSeq(token, 1, Len(lagged)) = lagged

\* C8: a set_variable or evaluate call whose expression refers to a name
\* that is neither bound at the time of the call nor a window column fails
\* with an error and binds nothing; no value is made up for the name.
C8_UnboundNameFails ==
    last # None =>
        \A name \in KnownNames :
            (/\ Refers(last.expression, name)
             /\ name \notin DOMAIN last.before
             /\ name \notin ColumnSet(parser.data))
            => /\ ~last.res.ok
               /\ last.res.exc = "ValueError"
               /\ parser.variables = last.before

\* y is bound, x is not, and an expression using x was evaluated
C8_Witness ==
    /\ last # None
    /\ last.op = "evaluate"
    /\ last.expression = "x < close"
    /\ "x" \notin DOMAIN last.before
    /\ "y" \in DOMAIN last.before
    /\ ~last.res.ok

\* C9: with name bound to e, evaluate("name.shift(n) < close") gives on row i
\* the comparison of e's value on row i-n with close on row i, and null on
\* the first n rows.
C9_ShiftIsRowLag ==
    \A name \in VariableNames, n \in Lags :
        (/\ last # None
         /\ last.op = "evaluate"
         /\ last.expression = ShiftLess(name, n)
         /\ name \in DOMAIN last.before)
        => /\ last.res.ok
           /\ last.res.val.values =
                 [i \in 1..Height(parser.data) |->
                     IF i <= n THEN Null
                     ELSE ApplyOp("<", RowVal(last.before[name], parser.data, i - n),
                                       RowVal(Col("close"), parser.data, i))]

\* x bound to close, "x.shift(1) < close" evaluated over a rising window: true
\* on row 2, where close compared with itself would be false
C9_Witness ==
    /\ last # None
    /\ last.op = "evaluate"
    /\ last.expression = ShiftLess("x", 1)
    /\ "x" \in DOMAIN last.before
    /\ last.before["x"] = Col("close")
    /\ last.res.ok
    /\ last.res.val.values[1] = Null
    /\ last.res.val.values[2] = Bool(TRUE)

Replay(c, p) ==
    IF c.op = "evaluate" THEN Evaluate(p, c.expression)
    ELSE SetVariable(p, c.name, c.expression).res

\* C12: a set_variable call that fails leaves the parser as it was (the name
\* stays unbound or keeps its expression), and the call made after it returns
\* what it would have returned had the failed call not been made; a
\* set_variable call that succeeds changes the binding of its name and
\* nothing else.
C12_FailedBindChangesNothing ==
    /\ (last # None /\ last.op = "set_variable") =>
          IF ~last.res.ok
          THEN parser = parser0
          ELSE /\ parser.data = parser0.data
               /\ parser.indicators = parser0.indicators
               /\ DOMAIN parser.variables = DOMAIN parser0.variables \cup {last.name}
               /\ \A n \in DOMAIN parser0.variables :
                     n # last.name => parser.variables[n] = parser0.variables[n]
    /\ (prev # None /\ prev.op = "set_variable" /\ ~prev.res.ok) =>
          /\ last.before = prev.before
          /\ last.res = Replay(last, [parser0 EXCEPT !.variables = prev.before])

\* a bound name, a failed attempt to bind it again, and then a call that uses
\* the name and succeeds
C12_Witness ==
    /\ last # None
    /\ prev # None
    /\ prev.op = "set_variable"
    /\ ~prev.res.ok
    /\ prev.name \in DOMAIN prev.before
    /\ last.op = "evaluate"
    /\ Refers(last.expression, prev.name)
    /\ last.res.ok

(***************************************************************************)
(* Properties of strategy_service, checked under SpecStore                 *)
(***************************************************************************)
UpdateMade == last # None /\ last.op = "update_strategy"

\* the row the last call was about, before the call and now
RowBefore == GetStrategy(last.before.table, last.name)
RowNow == GetStrategy(db, last.name)

\* every row but the one with the id is what it was
OtherRowsUnchanged ==
    /\ Len(db) = Len(last.before.table)
    /\ \A i \in 1..Len(db) : db[i].id # last.name => db[i] = last.before.table[i]

\* a get_strategy for the id of the update made just before it returns what
\* the update returned
GetAfterUpdateSeesIt ==
    (/\ last # None
     /\ prev # None
     /\ last.op = "get_strategy"
     /\ prev.op = "update_strategy"
     /\ prev.name = last.name
     /\ prev.res.ok)
    => last.res = prev.res

\* an unknown id: nothing changes and None is returned
UnknownIdChangesNothing ==
    (UpdateMade /\ RowBefore = None) => (db = last.before.table /\ last.res = Ok(None))

\* C13 as stated: update_strategy sets exactly the given fields of the row
\* with the id and leaves every other field of the row and every other row
\* as it was; a following get_strategy returns the updated row; an unknown id
\* changes nothing and returns None.
C13_SetsExactlyGivenFields ==
    /\ (UpdateMade /\ RowBefore # None) =>
          /\ last.res = Ok(RowNow)
          /\ \A f \in DOMAIN RowNow :
                RowNow[f] = IF f \in last.expression.fields_set
                            THEN last.expression.values[f]
                            ELSE RowBefore[f]
          /\ OtherRowsUnchanged
    /\ UnknownIdChangesNothing
    /\ GetAfterUpdateSeesIt

\* the update gives NULL to the column that is NOT NULL
GivesNullToNotNull(strategy_update) ==
    "name" \in strategy_update.fields_set /\ strategy_update.values["name"] = NULL

\* C13 as amended: an update that gives no NULL name sets exactly the given
\* fields and leaves the others as they were, except updated_at, which keeps
\* its value or becomes the time of the update; an update that gives a NULL
\* name fails with IntegrityError and stores nothing; other rows never
\* change; a following get_strategy returns the updated row; an unknown id
\* changes nothing and returns None.
C13_GivenFieldsAndUpdatedAt ==
    /\ (UpdateMade /\ RowBefore # None /\ ~GivesNullToNotNull(last.expression)) =>
          /\ last.res = Ok(RowNow)
          /\ \A f \in DOMAIN RowNow \ {"updated_at"} :
                RowNow[f] = IF f \in last.expression.fields_set
                            THEN last.expression.values[f]
                            ELSE RowBefore[f]
          /\ RowNow.updated_at \in {RowBefore.updated_at, last.before.now}
          /\ OtherRowsUnchanged
    /\ (UpdateMade /\ RowBefore # None /\ GivesNullToNotNull(last.expression)) =>
          /\ db = last.before.table
          /\ last.res = Raise("IntegrityError", "NOT NULL constraint failed")
    /\ UnknownIdChangesNothing
    /\ GetAfterUpdateSeesIt

\* the update of the test (name and is_active) on the first of two rows,
\* followed by a get_strategy for it
C13_Witness ==
    /\ last # None
    /\ prev # None
    /\ last.op = "get_strategy"
    /\ prev.op = "update_strategy"
    /\ prev.name = 1
    /\ last.name = 1
    /\ prev.expression.fields_set = {"name", "is_active"}
    /\ Len(db) = 2
    /\ last.res.val.name = "Updated"
    /\ last.res.val.description = "A simple strategy"

(***************************************************************************)
(* Properties of the indicator form, checked under SpecCalls               *)
(***************************************************************************)
\* the call token has been through _shunting_yard
CallParsed == ast # None /\ ast.k = "call" /\ pc # "tokens"

\* some written argument is not a number; a call written with no argument
\* has the empty string for its only argument
NonNumericArgument ==
    ast.args = <<>> \/ \E i \in 1..Len(ast.args) : ~IsFloatLiteral(ast.args[i])

Registered == ast.name \in DOMAIN parser.indicators

\* the written arguments as numbers, in written order
Converted == [i \in 1..Len(ast.args) |-> FloatValue(ast.args[i])]

\* the items of the queue that an indicator returned
IndicatorItems(queue) ==
    SelectSeq(queue, LAMBDA item : item.k = "rolling_mean")

\* the queue holds the outcome of one invocation with the converted arguments
InvokedOnce ==
    /\ rpn.ok
    /\ IndicatorItems(rpn.val) = <<InvokeIndicator(ast.name, Converted).val>>

\* C14 as stated: the arguments are converted first, a non-numeric one failing
\* with ArgumentConversionError; then the name is looked up, an unregistered
\* one failing with UnknownIndicatorFunction; otherwise the indicator is
\* invoked once with the converted arguments, and ArgumentConversionError has
\* no other cause than a non-numeric argument.
C14_ConvertThenLookUp ==
    CallParsed =>
        IF NonNumericArgument THEN rpn = ArgumentConversionError
        ELSE IF ~Registered THEN rpn = UnknownIndicatorFunction
        ELSE InvokedOnce

\* C14 as amended: the name is looked up first, an unregistered one failing
\* with UnknownIndicatorFunction whatever the arguments; then the arguments
\* are converted, a non-numeric one failing with ArgumentConversionError;
\* then the indicator is invoked once with the converted arguments in written
\* order, and a ValueError or TypeError it raises (such as a wrong number of
\* arguments) is ArgumentConversionError too.
C14_LookUpThenConvert ==
    CallParsed =>
        IF ~Registered THEN rpn = UnknownIndicatorFunction
        ELSE IF NonNumericArgument THEN rpn = ArgumentConversionError
        ELSE IF ~InvokeIndicator(ast.name, Converted).ok THEN rpn = ArgumentConversionError
        ELSE InvokedOnce

\* an unregistered name called with a non-numeric argument
C14_Witness ==
    /\ CallParsed
    /\ ~Registered
    /\ NonNumericArgument
    /\ ast.args # <<>>
    /\ rpn = UnknownIndicatorFunction

(***************************************************************************)
(* Properties of overlapping invocations, checked under SpecConcurrent     *)
(***************************************************************************)
\* the names a strategy declares
Declared(strat) == {strat.variables[j].name : j \in 1..Len(strat.variables)}

\* what the invocation does on an engine that no other invocation has used
Alone(inv) == RunScanAfterFetch(None, mock_indicators, inv.strategy, inv.ohlcv_df)

\* C15: whatever the order in which overlapping invocations of run_scan on one
\* engine start and resume, each evaluates with a parser over the window it
\* fetched itself that binds only the variables of its own strategy, and it
\* returns what it would return on an engine of its own.
C15_InvocationsIsolated ==
    \A i \in DOMAIN invocations :
        LET inv == invocations[i] IN
        inv.pc # "fetching" =>
            /\ inv.result = Alone(inv).result
            /\ inv.ohlcv_df.rows # <<>> =>
                  /\ inv.parser.data = inv.ohlcv_df
                  /\ DOMAIN inv.parser.variables \subseteq Declared(inv.strategy)

\* the first invocation resumes after a later one has left in self.parser a
\* parser over another window with x bound; it declares no x, and fails to
\* find one
C15_Witness ==
    /\ Len(invocations) = 2
    /\ invocations[1].pc = "returned"
    /\ invocations[1].found # None
    /\ "x" \in DOMAIN invocations[1].found.variables
    /\ invocations[1].strategy = [variables |-> <<>>, condition |-> "x > 2"]
    /\ invocations[1].ohlcv_df.rows # <<>>
    /\ invocations[1].found.data # invocations[1].ohlcv_df
    /\ invocations[1].result = Ok(EmptyDataFrame)

(***************************************************************************)
(* Properties of name resolution, checked under SpecNames                  *)
(***************************************************************************)
\* evaluate(expression) has just returned or raised
Evaluated(expression) ==
    last # None /\ last.op = "evaluate" /\ last.expression = expression

\* the values of the variable bound to name at the time of the call, moved
\* down by lag rows
BoundValues(name, lag) ==
    [i \in 1..Height(parser.data) |->
        IF i <= lag THEN Null ELSE RowVal(last.before[name], parser.data, i - lag)]

ColumnValues(name) ==
    [i \in 1..Height(parser.data) |-> Num(Rat(parser.data.rows[i][name], 1))]

\* C16: whatever has been bound, a bare column name denotes the column, a
\* bare numeral the number and a bare operator the operator; any other bare
\* name denotes the variable bound to it and fails when there is none; the lag
\* form name.shift(n) denotes the lagged variable bound to name and fails when
\* there is none, a column name included.
C16_FixedPriority ==
    \A name \in ResolvedNames :
        /\ Evaluated(name) =>
              CASE name \in ColumnSet(parser.data) ->
                      last.res.ok /\ last.res.val.values = ColumnValues(name)
                [] name = "2" ->
                      /\ last.res.ok
                      /\ last.res.val.values = [i \in 1..Height(parser.data) |-> Num(Rat(2, 1))]
                [] name = "+" -> last.res = PopFromEmptyList
                [] OTHER ->
                      IF name \in DOMAIN last.before
                      THEN last.res.ok /\ last.res.val.values = BoundValues(name, 0)
                      ELSE last.res = UnknownTokenOrVariable
        /\ Evaluated(LagOne(name)) =>
              IF name \in DOMAIN last.before
              THEN last.res.ok /\ last.res.val.values = BoundValues(name, 1)
              ELSE last.res = UnknownVariableForShift

\* close is bound as a variable to close + 1; evaluate("close") gives the
\* column all the same
C16_Witness ==
    /\ Evaluated("close")
    /\ "close" \in DOMAIN last.before
    /\ last.res.ok
    /\ last.res.val.values = ColumnValues("close")
    /\ last.res.val.values # BoundValues("close", 0)

====
